---- MODULE Spec2Model ----
(***************************************************************************)
(* A model of dataklasses.py: templates compiled once per lru_cache key,   *)
(* specialised by patch_fields, installed by dataklass(), and the          *)
(* behaviour of the installed methods on instances.                        *)
(*                                                                         *)
(* Function objects live in a heap (a sequence; an object's identity is    *)
(* its index), so that sharing, mutation and identity of templates and of  *)
(* specialised methods are observable.                                     *)
(***************************************************************************)
EXTENDS Integers, Sequences, FiniteSets, TLC

VARIABLES
    heap,       \* function objects: templates and patched methods
    cache,      \* kind -> the lru_cache of that make__*__ (most recent first)
    log,        \* every call of a make_func_code: kind, key, result, compiled?
    classes,    \* the classes handed to dataklass(), in declaration order
    instances,  \* objects built by calling a class
    last,       \* the most recent call on a class or an instance and its outcome
    thr         \* threads inside make_func_code (concurrent declarations)

vars == <<heap, cache, log, classes, instances, last, thr>>

----------------------------------------------------------------------------
(* Bounds of the model *)

MaxClasses == 3
MaxInstances == 2
MaxThreads == 3
MaxDeclClasses == 2
MaxCallClasses == 2
MaxFrozenClasses == 2
MaxFrozenInstances == 1
MaxEqClasses == 2
\* functools.lru_cache keeps maxsize=128 entries by default; scaled down so
\* that eviction is reachable.
LruMaxSize == 1

----------------------------------------------------------------------------
(* Python values *)

Int1 == [ty |-> "int", n |-> 1]
Int2 == [ty |-> "int", n |-> 2]
BoolTrue == [ty |-> "bool", n |-> 1]

\* x == y on numbers: bool is a subclass of int, True == 1
PyEq(x, y) == x.n = y.n

\* hash(x): equal numbers hash equal
PyHash(x) == x.n

\* repr(x), as spliced into the generated source by {defaults[name]!r}
Repr(x) ==
    CASE x.ty = "bool" -> IF x.n = 1 THEN "True" ELSE "False"
      [] x.ty = "int" /\ x.n = 1 -> "1"
      [] x.ty = "int" /\ x.n = 2 -> "2"
      [] OTHER -> "?"

\* the value of a default expression when exec() runs the def statement
Eval(src) ==
    CASE src = "True" -> BoolTrue
      [] src = "1" -> Int1
      [] src = "2" -> Int2
      [] OTHER -> [ty |-> "error", n |-> 0]

Range(s) == {s[i] : i \in DOMAIN s}

----------------------------------------------------------------------------
(* codegen: the generic templates *)

PH == <<"_1", "_2", "_3", "_4", "_5", "_6">>

\* fields = tuple(f"_{x}" for x in range(1, 1 + num_fields))
Placeholders(num_fields) == [i \in 1..num_fields |-> PH[i]]

\* defaults is a tuple of (placeholder, value) pairs; dict(defaults)
HasDefault(defaults, name) == \E i \in DOMAIN defaults : defaults[i][1] = name

DefaultOf(defaults, name) ==
    defaults[CHOOSE i \in DOMAIN defaults : defaults[i][1] = name][2]

Star == [tok |-> "*", name |-> "", has |-> FALSE, src |-> ""]

RECURSIVE ParamLoop(_, _, _, _, _)
ParamLoop(fields, defaults, i, seen_default, kw_only) ==
    IF i > Len(fields) THEN <<>>
    ELSE LET name == fields[i] IN
         IF HasDefault(defaults, name)
         THEN <<[tok |-> "param", name |-> name, has |-> TRUE,
                 src |-> Repr(DefaultOf(defaults, name))]>>
              \o ParamLoop(fields, defaults, i + 1, TRUE, kw_only)
         ELSE LET p == [tok |-> "param", name |-> name, has |-> FALSE, src |-> ""] IN
              IF seen_default /\ ~kw_only
              THEN <<Star, p>> \o ParamLoop(fields, defaults, i + 1, seen_default, TRUE)
              ELSE <<p>> \o ParamLoop(fields, defaults, i + 1, seen_default, kw_only)

\* the buggy variant: "*" follows the first parameter with a default
RECURSIVE ParamLoopEager(_, _, _, _)
ParamLoopEager(fields, defaults, i, kw_only) ==
    IF i > Len(fields) THEN <<>>
    ELSE LET name == fields[i]
             has == HasDefault(defaults, name)
             p == [tok |-> "param", name |-> name, has |-> has,
                   src |-> IF has THEN Repr(DefaultOf(defaults, name)) ELSE ""]
         IN IF has /\ ~kw_only /\ i < Len(fields)
            THEN <<p, Star>> \o ParamLoopEager(fields, defaults, i + 1, TRUE)
            ELSE <<p>> \o ParamLoopEager(fields, defaults, i + 1, kw_only)

ParamListEager(fields, defaults) == ParamLoopEager(fields, defaults, 1, FALSE)

\* the parameter list of the generated def, as a token sequence
ParamList(fields, defaults) == ParamLoop(fields, defaults, 1, FALSE, FALSE)

StarAt(params) ==
    IF \E i \in DOMAIN params : params[i].tok = "*"
    THEN CHOOSE i \in DOMAIN params : params[i].tok = "*"
    ELSE Len(params) + 1

\* what exec() makes of "def f(first, <params>): ...": the signature part of
\* the function object
Signature(params) ==
    LET s == StarAt(params)
        pos == SubSeq(params, 1, s - 1)
        kwo == SubSeq(params, s + 1, Len(params))
        dpos == SelectSeq(pos, LAMBDA p : p.has)
        knames == {kwo[i].name : i \in {j \in DOMAIN kwo : kwo[j].has}}
    IN [argcount |-> 1 + Len(pos),
        kwonlyargcount |-> Len(kwo),
        defaults |-> [i \in DOMAIN dpos |-> Eval(dpos[i].src)],
        kwdefaults |-> [nm \in knames |->
            Eval(kwo[CHOOSE i \in DOMAIN kwo : kwo[i].name = nm].src)]]

NoParams ==
    [argcount |-> 1, kwonlyargcount |-> 0, defaults |-> <<>>, kwdefaults |-> <<>>]

Func(kind, sig, names, varnames, consts) ==
    [kind |-> kind, co_names |-> names, co_varnames |-> varnames,
     co_consts |-> consts, argcount |-> sig.argcount,
     kwonlyargcount |-> sig.kwonlyargcount, defaults |-> sig.defaults,
     kwdefaults |-> sig.kwdefaults]

make__init__(fields, defaults) ==
    Func("init", Signature(ParamList(fields, defaults)),
         fields, <<"self">> \o fields, <<"None">>)

make__new__(fields, defaults) ==
    Func("new", Signature(ParamList(fields, defaults)),
         <<"object", "__new__", "__setattr__">>,
         <<"cls">> \o fields \o <<"self">>, <<"None">> \o fields)

make__repr__(fields) ==
    Func("repr", NoParams, <<"type", "__name__">> \o fields,
         <<"self">>, <<"None", "(", ", ", ")">>)

make__repr__keyword(fields) ==
    Func("repr_kw", NoParams,
         <<"type", "__name__", "join", "zip", "__match_args__">> \o fields,
         <<"self">>, <<"None", "(", ", ", "<genexpr>", ")">>)

make__eq__(fields) ==
    Func("eq", [NoParams EXCEPT !.argcount = 2],
         <<"__class__">> \o fields \o <<"NotImplemented">>,
         <<"self", "other">>, <<"None">>)

make__iter__(fields) ==
    Func("iter", NoParams, fields, <<"self">>, <<"None">>)

make__hash__(fields) ==
    Func("hash", NoParams, <<"hash">> \o fields, <<"self">>, <<"None">>)

Kinds == {"init", "new", "repr", "repr_kw", "eq", "iter", "hash"}

\* exec(func(fields, *args), globals(), d); d.popitem()[1]
Compile(kind, key) ==
    LET fields == Placeholders(key.n) IN
    CASE kind = "init" -> make__init__(fields, key.args)
      [] kind = "new" -> make__new__(fields, key.args)
      [] kind = "repr" -> make__repr__(fields)
      [] kind = "repr_kw" -> make__repr__keyword(fields)
      [] kind = "eq" -> make__eq__(fields)
      [] kind = "iter" -> make__iter__(fields)
      [] kind = "hash" -> make__hash__(fields)

----------------------------------------------------------------------------
(* lru_cache *)

\* Two argument tuples are the same cache key when they hash and compare
\* equal: (n, defaults) against (n', defaults')
KeyEq(k1, k2) ==
    /\ k1.n = k2.n
    /\ Len(k1.args) = Len(k2.args)
    /\ \A i \in DOMAIN k1.args :
          /\ k1.args[i][1] = k2.args[i][1]
          /\ PyEq(k1.args[i][2], k2.args[i][2])

\* the buggy variant: templates keyed by arity alone
CacheIndexByArity(entries, key) ==
    IF \E i \in DOMAIN entries : entries[i].key.n = key.n
    THEN CHOOSE i \in DOMAIN entries : entries[i].key.n = key.n
    ELSE 0

\* the position of key in a cache, 0 on a miss
CacheIndex(entries, key) ==
    IF \E i \in DOMAIN entries : KeyEq(entries[i].key, key)
    THEN CHOOSE i \in DOMAIN entries : KeyEq(entries[i].key, key)
    ELSE 0

Without(s, i) == SubSeq(s, 1, i - 1) \o SubSeq(s, i + 1, Len(s))

Truncate(s) == IF Len(s) > LruMaxSize THEN SubSeq(s, 1, LruMaxSize) ELSE s

\* a hit moves the entry to the front (most recently used)
LruHit(c, kind, i) == [c EXCEPT ![kind] = <<@[i]>> \o Without(@, i)]

\* after the call of the wrapped function: the result is stored unless the
\* key was added meanwhile; a full cache drops its least recently used entry
LruStore(c, kind, key, id) ==
    IF CacheIndex(c[kind], key) > 0 THEN c
    ELSE [c EXCEPT ![kind] = Truncate(<<[key |-> key, fn |-> id]>> \o @)]

LogEntry(kind, key, id, compiled) ==
    [kind |-> kind, key |-> key, id |-> id, compiled |-> compiled]

\* make_func_code(num_fields, *args) as one uninterrupted call.
\* m = [heap, cache, log]; the result adds id, the function returned.
MakeFuncCode(m, kind, key) ==
    LET i == CacheIndex(m.cache[kind], key) IN
    IF i > 0
    THEN LET id == m.cache[kind][i].fn IN
         [heap |-> m.heap,
          cache |-> LruHit(m.cache, kind, i),
          log |-> Append(m.log, LogEntry(kind, key, id, FALSE)),
          id |-> id]
    ELSE LET id == Len(m.heap) + 1 IN
         [heap |-> Append(m.heap, Compile(kind, key)),
          cache |-> LruStore(m.cache, kind, key, id),
          log |-> Append(m.log, LogEntry(kind, key, id, TRUE)),
          id |-> id]

----------------------------------------------------------------------------
(* patch_fields *)

\* fields.get(x, x)
Get(fields, x) == IF x \in DOMAIN fields THEN fields[x] ELSE x

Renamed(func, fields) ==
    [func EXCEPT
        !.co_names = [i \in DOMAIN @ |-> Get(fields, @[i])],
        !.co_varnames = [i \in DOMAIN @ |-> Get(fields, @[i])],
        !.co_consts = [i \in DOMAIN @ |-> Get(fields, @[i])],
        !.kwdefaults =
            [nm \in {fields[n] : n \in DOMAIN func.kwdefaults} |->
                func.kwdefaults[CHOOSE n \in DOMAIN func.kwdefaults : fields[n] = nm]]]

\* the buggy variant: renames the template's own code object in place
PatchFieldsInPlace(h, f, fields) ==
    [heap |-> [h EXCEPT ![f] = Renamed(h[f], fields)], id |-> f]

\* patch_fields(func, fields): a new function object; func is only read
PatchFields(h, f, fields) ==
    [heap |-> Append(h, Renamed(h[f], fields)), id |-> Len(h) + 1]

----------------------------------------------------------------------------
(* Classes *)

Slots == {"__init__", "__new__", "__setattr__", "__delattr__",
          "__repr__", "__eq__", "__iter__", "__hash__"}

Absent == [k |-> "absent", id |-> 0]
User == [k |-> "user", id |-> 0]
HashNone == [k |-> "none", id |-> 0]
Fn(id) == [k |-> "fn", id |-> id]
FrozenSetattr == [k |-> "frozen_setattr", id |-> 0]
FrozenDelattr == [k |-> "frozen_delattr", id |-> 0]

\* the namespace of a class statement whose body defines the methods in
\* user; a body that defines __eq__ without __hash__ gets __hash__ = None
ClassDict(user) ==
    [s \in Slots |->
        IF s \in user THEN User
        ELSE IF s = "__hash__" /\ "__eq__" \in user THEN HashNone
        ELSE Absent]

\* cls.__mro__ without object, single inheritance
RECURSIVE Mro(_, _)
Mro(cs, cls) == <<cls>> \o (IF cls.base = 0 THEN <<>> ELSE Mro(cs, cs[cls.base]))

\* y | x on ordered dicts, keys only: y's keys, then x's keys new to y
DictUnion(y, x) == y \o SelectSeq(x, LAMBDA k : k \notin Range(y))

RECURSIVE ReduceAnn(_, _, _)
ReduceAnn(mro, i, x) ==
    IF i > Len(mro) THEN x ELSE ReduceAnn(mro, i + 1, DictUnion(mro[i].ann, x))

\* getattr(cls, x) for a default value: the first class of the MRO that has it
ClassAttrOwner(mro, x) ==
    IF \E i \in DOMAIN mro : x \in DOMAIN mro[i].attrs
    THEN CHOOSE i \in DOMAIN mro :
            /\ x \in DOMAIN mro[i].attrs
            /\ \A j \in 1..(i - 1) : x \notin DOMAIN mro[j].attrs
    ELSE 0

\* get_fields(cls) for a class without __slots__:
\*   names    the field names in order (tuple(fields.values()))
\*   fields   placeholder -> name
\*   defaults ((placeholder, value), ...) in field order
GetFields(cs, cls) ==
    LET mro == Mro(cs, cls)
        names == ReduceAnn(mro, 1, <<>>)
        withd == SelectSeq([i \in DOMAIN names |-> i],
                           LAMBDA i : ClassAttrOwner(mro, names[i]) > 0)
    IN [names |-> names,
        fields |-> [p \in {PH[i] : i \in DOMAIN names} |->
                       names[CHOOSE i \in DOMAIN names : PH[i] = p]],
        defaults |-> [j \in DOMAIN withd |->
                       <<PH[withd[j]],
                         mro[ClassAttrOwner(mro, names[withd[j]])].attrs[names[withd[j]]]>>]]

\* attribute lookup on the type: the first class of the MRO defining slot
Lookup(cs, c, slot) ==
    LET mro == Mro(cs, cs[c]) IN
    IF \E i \in DOMAIN mro : mro[i].dict[slot].k # "absent"
    THEN mro[CHOOSE i \in DOMAIN mro :
                /\ mro[i].dict[slot].k # "absent"
                /\ \A j \in 1..(i - 1) : mro[j].dict[slot].k = "absent"].dict[slot]
    ELSE Absent

----------------------------------------------------------------------------
(* dataklass *)

InDict(s, slot) == s.dict[slot].k # "absent"

\* one statement after another: F applied to the state v has reached
Then(v, F(_)) == CHOOSE y \in {F(x) : x \in {v}} : TRUE

Raise(s, e) == [s EXCEPT !.err = e]

\* cls.<slot> = patch_fields(make_<kind>(num_fields, *args), fields)
Install(s, slot, kind, key, fields) ==
    LET Patch(g) ==
            LET Set(p) == [s EXCEPT !.heap = p.heap, !.cache = g.cache,
                                    !.log = g.log, !.dict[slot] = Fn(p.id)]
            IN Then(PatchFields(g.heap, g.id, fields), Set)
    IN Then(MakeFuncCode([heap |-> s.heap, cache |-> s.cache, log |-> s.log],
                         kind, key), Patch)

\* the body of dataklass(cls, frozen, iter, hash, keyword_repr), statement by
\* statement; err is the TypeError raised, "" when it returns cls
DataklassRun(m, cs, cls, opts) ==
    LET gf == GetFields(cs, cls)
        num_fields == Len(gf.names)
        kd == [n |-> num_fields, args |-> gf.defaults]
        k0 == [n |-> num_fields, args |-> <<>>]
        s0 == [heap |-> m.heap, cache |-> m.cache, log |-> m.log,
               dict |-> cls.dict, match_args |-> cls.match_args, err |-> ""]
        \* cls.__match_args__ = tuple(fields.values())
        MatchArgs(s) == [s EXCEPT !.match_args = gf.names]
        \* if "__init__" not in cls_dict and not frozen
        StInit(s) ==
            IF ~InDict(s, "__init__") /\ ~opts.frozen
            THEN Install(s, "__init__", "init", kd, gf.fields)
            ELSE s
        \* if frozen
        StFrozen(s) ==
            IF opts.frozen
            THEN IF InDict(s, "__setattr__") \/ InDict(s, "__delattr__")
                 THEN Raise(s, "frozen_setattr")
                 ELSE [Install(s, "__new__", "new", kd, gf.fields) EXCEPT
                          !.dict["__setattr__"] = FrozenSetattr,
                          !.dict["__delattr__"] = FrozenDelattr]
            ELSE s
        \* if "__repr__" not in cls_dict
        StRepr(s) ==
            IF s.err = "" /\ ~InDict(s, "__repr__")
            THEN Install(s, "__repr__",
                         IF opts.keyword_repr THEN "repr_kw" ELSE "repr",
                         k0, gf.fields)
            ELSE s
        \* if "__eq__" not in cls_dict
        StEq(s) ==
            IF s.err = "" /\ ~InDict(s, "__eq__")
            THEN Install(s, "__eq__", "eq", k0, gf.fields)
            ELSE s
        \* if iter
        StIter(s) ==
            IF s.err = "" /\ opts.iter
            THEN IF InDict(s, "__iter__")
                 THEN Raise(s, "iter_hides")
                 ELSE Install(s, "__iter__", "iter", k0, gf.fields)
            ELSE s
        \* if hash
        StHash(s) ==
            IF s.err = "" /\ opts.hash
            THEN IF InDict(s, "__hash__")
                 THEN Raise(s, "hash_hides")
                 ELSE Install(s, "__hash__", "hash", k0, gf.fields)
            ELSE s
    IN IF num_fields = 0 THEN Raise(s0, "no_fields")
       ELSE Then(Then(Then(Then(Then(Then(MatchArgs(s0),
                 StInit), StFrozen), StRepr), StEq), StIter), StHash)

NoValue == [ty |-> "none", n |-> 0]

NoCall ==
    [op |-> "none", cls |-> 0, inst |-> 0, other |-> 0, name |-> "",
     pos |-> <<>>, kw |-> <<>>, res |-> "", msg |-> "", val |-> NoValue,
     attrs |-> <<>>]

\* A class statement (base, annotations, class attributes, methods written
\* by the user) followed by dataklass(cls, **opts)
Dataklass(decls, maxc) ==
    /\ Len(classes) < maxc
    /\ \E d \in decls : \E base \in d.bases \cap (0..Len(classes)) :
          LET b == d.body
              o == d.opts
          IN
          /\ base > 0 => classes[base].status = ""
          /\ \E r \in {DataklassRun([heap |-> heap, cache |-> cache, log |-> log],
                                     classes,
                                     [base |-> base, ann |-> b.ann, attrs |-> b.attrs,
                                      user |-> b.user, dict |-> ClassDict(b.user),
                                      match_args |-> <<>>],
                                     o)} :
                /\ heap' = r.heap
                /\ cache' = r.cache
                /\ log' = r.log
                /\ classes' = Append(classes,
                       [base |-> base, ann |-> b.ann, attrs |-> b.attrs,
                        user |-> b.user, dict |-> r.dict,
                        match_args |-> r.match_args, opts |-> o,
                        status |-> r.err])
                /\ last' = [NoCall EXCEPT !.op = "dataklass",
                                          !.cls = Len(classes) + 1,
                                          !.res = r.err]
    /\ UNCHANGED <<instances, thr>>

----------------------------------------------------------------------------
(* Calling a class: type.__call__, argument binding, the bodies of the     *)
(* generated __init__ and __new__                                          *)

TypeError(name) == [res |-> "TypeError", msg |-> name, attrs |-> <<>>]

\* Binding a call's arguments to the parameters of function f, whose first
\* parameter (self or cls) is bound already. pos: the positional arguments,
\* kw: keyword -> value.
BindArgs(f, pos, kw) ==
    LET npos == f.argcount - 1
        pnames == SubSeq(f.co_varnames, 2, f.argcount)
        knames == SubSeq(f.co_varnames, f.argcount + 1,
                         f.argcount + f.kwonlyargcount)
        nd == Len(f.defaults)
        all == Range(pnames) \cup Range(knames)
        ok == /\ Len(pos) <= npos
              /\ DOMAIN kw \subseteq all
              /\ \A i \in 1..npos :
                    IF i <= Len(pos) THEN pnames[i] \notin DOMAIN kw
                    ELSE pnames[i] \in DOMAIN kw \/ i > npos - nd
              /\ \A i \in DOMAIN knames :
                    knames[i] \in DOMAIN kw \/ knames[i] \in DOMAIN f.kwdefaults
        idx(nm) == CHOOSE i \in DOMAIN pnames : pnames[i] = nm
        val(nm) ==
            IF nm \in Range(pnames)
            THEN IF idx(nm) <= Len(pos) THEN pos[idx(nm)]
                 ELSE IF nm \in DOMAIN kw THEN kw[nm]
                 ELSE f.defaults[idx(nm) - (npos - nd)]
            ELSE IF nm \in DOMAIN kw THEN kw[nm] ELSE f.kwdefaults[nm]
    IN [ok |-> ok, locals |-> IF ok THEN [nm \in all |-> val(nm)] ELSE <<>>]

\* attrs with attribute name set to value
WithAttr(attrs, name, value) ==
    [nm \in DOMAIN attrs \cup {name} |-> IF nm = name THEN value ELSE attrs[nm]]

WithoutAttr(attrs, name) == [nm \in DOMAIN attrs \ {name} |-> attrs[nm]]

\* the buggy variant: the guard lets the write through
frozen_setattr_writes(attrs, name, value) ==
    [res |-> "ok", msg |-> "", attrs |-> WithAttr(attrs, name, value)]

\* raise TypeError(f"dataklass(frozen=True) cannot set attribute {name}")
frozen_setattr(attrs, name, value) ==
    [res |-> "TypeError", msg |-> name, attrs |-> attrs]

\* raise TypeError(f"dataklass(frozen=True) cannot delete attribute {name}")
frozen_delattr(attrs, name) ==
    [res |-> "TypeError", msg |-> name, attrs |-> attrs]

\* self.name = value through the type's __setattr__ (st: what the type's
\* MRO resolves __setattr__ to)
SetAttrVia(st, attrs, name, value) ==
    IF st.k = "frozen_setattr" THEN frozen_setattr(attrs, name, value)
    ELSE [res |-> "ok", msg |-> "", attrs |-> WithAttr(attrs, name, value)]

\* del self.name through the type's __delattr__
DelAttrVia(dl, attrs, name) ==
    IF dl.k = "frozen_delattr" THEN frozen_delattr(attrs, name)
    ELSE IF name \in DOMAIN attrs
         THEN [res |-> "ok", msg |-> "", attrs |-> WithoutAttr(attrs, name)]
         ELSE [res |-> "AttributeError", msg |-> name, attrs |-> attrs]

\* the body of a patched __init__: self.<co_names[i]> = <co_varnames[i+1]>,
\* one ordinary attribute assignment after the other
RECURSIVE RunInit(_, _, _, _, _)
RunInit(st, f, locals, attrs, i) ==
    IF i > Len(f.co_names) THEN [res |-> "ok", msg |-> "", attrs |-> attrs]
    ELSE LET r == SetAttrVia(st, attrs, f.co_names[i], locals[f.co_varnames[i + 1]]) IN
         IF r.res # "ok" THEN r ELSE RunInit(st, f, locals, r.attrs, i + 1)

\* the body of a patched __new__:
\* object.__setattr__(self, <co_consts[i+1]>, <co_varnames[i+1]>)
RECURSIVE RunNew(_, _, _, _)
RunNew(f, locals, attrs, i) ==
    IF i + 1 > Len(f.co_consts) THEN [res |-> "ok", msg |-> "", attrs |-> attrs]
    ELSE RunNew(f, locals,
                WithAttr(attrs, f.co_consts[i + 1], locals[f.co_varnames[i + 1]]),
                i + 1)

\* cls(*pos, **kw): cls.__new__(cls, ...) and then obj.__init__(...), each
\* resolved on the type; object.__new__ and object.__init__ take the
\* arguments only when the other method is overridden
CallClass(cs, h, c, pos, kw) ==
    LET new == Lookup(cs, c, "__new__")
        init == Lookup(cs, c, "__init__")
        st == Lookup(cs, c, "__setattr__")
        excess == Len(pos) > 0 \/ DOMAIN kw # {}
        r1 == IF new.k = "fn"
              THEN LET b == BindArgs(h[new.id], pos, kw) IN
                   IF b.ok THEN RunNew(h[new.id], b.locals, <<>>, 1)
                   ELSE TypeError("__new__")
              ELSE IF excess /\ init.k = "absent" THEN TypeError("object.__new__")
              ELSE [res |-> "ok", msg |-> "", attrs |-> <<>>]
    IN IF r1.res # "ok" THEN r1
       ELSE IF init.k = "fn"
            THEN LET b == BindArgs(h[init.id], pos, kw) IN
                 IF b.ok THEN RunInit(st, h[init.id], b.locals, r1.attrs, 1)
                 ELSE TypeError("__init__")
            ELSE IF excess /\ new.k = "absent" THEN TypeError("object.__init__")
            ELSE r1

\* Only calls that run generated or inherited-from-object code are modelled
Callable(cs, c) ==
    /\ cs[c].status = ""
    /\ Lookup(cs, c, "__new__").k \in {"fn", "absent"}
    /\ Lookup(cs, c, "__init__").k \in {"fn", "absent"}
    /\ Lookup(cs, c, "__setattr__").k \in {"frozen_setattr", "absent"}
    /\ Lookup(cs, c, "__delattr__").k \in {"frozen_delattr", "absent"}

\* obj = cls(*pos, **kw); the object is kept while there is room for it
Construct(posset, kwset, room) ==
    \E c \in DOMAIN classes, pos \in posset, kw \in kwset :
        /\ Callable(classes, c)
        /\ \E r \in {CallClass(classes, heap, c, pos, kw)} :
           LET keep == r.res = "ok" /\ Len(instances) < room
           IN /\ instances' =
                    IF keep
                    THEN Append(instances, [cls |-> c, attrs |-> r.attrs, built |-> r.attrs])
                    ELSE instances
              /\ last' = [NoCall EXCEPT !.op = "construct", !.cls = c,
                                        !.inst = IF keep THEN Len(instances) + 1 ELSE 0,
                                        !.pos = pos, !.kw = kw, !.res = r.res,
                                        !.msg = r.msg, !.attrs = r.attrs]
        /\ UNCHANGED <<heap, cache, log, classes, thr>>

----------------------------------------------------------------------------
(* Operations on instances *)

\* obj.name = value
SetAttr(names, values) ==
    \E i \in DOMAIN instances, name \in names, value \in values :
        LET r == SetAttrVia(Lookup(classes, instances[i].cls, "__setattr__"),
                            instances[i].attrs, name, value)
        IN /\ instances' = [instances EXCEPT ![i].attrs = r.attrs]
           /\ last' = [NoCall EXCEPT !.op = "setattr", !.cls = instances[i].cls,
                                     !.inst = i, !.name = name, !.val = value,
                                     !.res = r.res, !.msg = r.msg]
           /\ UNCHANGED <<heap, cache, log, classes, thr>>

\* del obj.name
DelAttr(names) ==
    \E i \in DOMAIN instances, name \in names :
        LET r == DelAttrVia(Lookup(classes, instances[i].cls, "__delattr__"),
                            instances[i].attrs, name)
        IN /\ instances' = [instances EXCEPT ![i].attrs = r.attrs]
           /\ last' = [NoCall EXCEPT !.op = "delattr", !.cls = instances[i].cls,
                                     !.inst = i, !.name = name,
                                     !.res = r.res, !.msg = r.msg]
           /\ UNCHANGED <<heap, cache, log, classes, thr>>

\* obj.name
GetAttr(names) ==
    \E i \in DOMAIN instances, name \in names :
        /\ last' = [NoCall EXCEPT !.op = "getattr", !.cls = instances[i].cls,
                                  !.inst = i, !.name = name,
                                  !.res = IF name \in DOMAIN instances[i].attrs
                                          THEN "ok" ELSE "AttributeError",
                                  !.val = IF name \in DOMAIN instances[i].attrs
                                          THEN instances[i].attrs[name] ELSE NoValue]
        /\ UNCHANGED <<heap, cache, log, classes, instances, thr>>

\* c and the classes c derives from
RECURSIVE Ancestors(_, _)
Ancestors(cs, c) == IF c = 0 THEN {} ELSE {c} \cup Ancestors(cs, cs[c].base)

\* the buggy variant: isinstance(other, self.__class__) instead of "is"
SameClassOrSubclass(cs, c, d) == c \in Ancestors(cs, d)

\* self.__class__ is other.__class__
SameClass(cs, c, d) == c = d

\* the body of a patched __eq__(self, other); its field names are
\* co_names[2..-2]
RunEq(cs, f, a, b) ==
    LET names == SubSeq(f.co_names, 2, Len(f.co_names) - 1) IN
    IF SameClass(cs, a.cls, b.cls)
    THEN IF \E i \in DOMAIN names :
               names[i] \notin DOMAIN a.attrs \/ names[i] \notin DOMAIN b.attrs
         THEN "AttributeError"
         ELSE IF \A i \in DOMAIN names : PyEq(a.attrs[names[i]], b.attrs[names[i]])
              THEN "True" ELSE "False"
    ELSE "NotImplemented"

\* type(a).__eq__(a, b), when the type's __eq__ is a generated one
Eq ==
    \E i \in DOMAIN instances, j \in DOMAIN instances :
        LET e == Lookup(classes, instances[i].cls, "__eq__") IN
        /\ e.k = "fn"
        /\ last' = [NoCall EXCEPT !.op = "eq", !.cls = instances[i].cls,
                                  !.inst = i, !.other = j,
                                  !.res = RunEq(classes, heap[e.id],
                                                instances[i], instances[j])]
        /\ UNCHANGED <<heap, cache, log, classes, instances, thr>>

\* the buggy variant: a hash that tells True from 1
TypedHash(x) == IF x.ty = "bool" THEN x.n + 7 ELSE x.n

\* hash() of one element of the tuple
ElemHash(x) == PyHash(x)

\* hash((v1, ..., vn)): every element's hash, in order
RECURSIVE TupleHash(_, _, _)
TupleHash(vals, i, acc) ==
    IF i > Len(vals) THEN acc
    ELSE TupleHash(vals, i + 1, (acc * 31 + ElemHash(vals[i])) % 65536)

\* the body of a patched __hash__(self); its field names are co_names[2..]
RunHash(f, a) ==
    LET names == SubSeq(f.co_names, 2, Len(f.co_names)) IN
    IF \E i \in DOMAIN names : names[i] \notin DOMAIN a.attrs
    THEN [res |-> "AttributeError", n |-> 0]
    ELSE [res |-> "ok",
          n |-> TupleHash([i \in DOMAIN names |-> a.attrs[names[i]]], 1, 7)]

\* type(a).__hash__(a), when the type's __hash__ is a generated one
Hash ==
    \E i \in DOMAIN instances :
        LET e == Lookup(classes, instances[i].cls, "__hash__")
            r == RunHash(heap[e.id], instances[i])
        IN /\ e.k = "fn"
           /\ last' = [NoCall EXCEPT !.op = "hash", !.cls = instances[i].cls,
                                     !.inst = i, !.res = r.res,
                                     !.val = [ty |-> "int", n |-> r.n]]
           /\ UNCHANGED <<heap, cache, log, classes, instances, thr>>

----------------------------------------------------------------------------
(* Concurrent declarations: several threads inside one make_func_code.     *)
(* The interpreter may switch threads while the wrapped function runs:     *)
(* lru_cache looks the key up, calls the function on a miss, and stores    *)
(* the result afterwards.                                                  *)

Idle == [pc |-> "idle", kind |-> "", key |-> [n |-> 0, args |-> <<>>], id |-> 0]

\* make_func_code(...) is entered: the cache lookup
TCall(reqs) ==
    \E t \in DOMAIN thr, rq \in reqs :
        /\ thr[t].pc = "idle"
        /\ LET i == CacheIndex(cache[rq.kind], rq.key) IN
           IF i > 0
           THEN /\ cache' = LruHit(cache, rq.kind, i)
                /\ log' = Append(log, LogEntry(rq.kind, rq.key, cache[rq.kind][i].fn, FALSE))
                /\ thr' = [thr EXCEPT ![t] = [pc |-> "done", kind |-> rq.kind,
                                              key |-> rq.key,
                                              id |-> cache[rq.kind][i].fn]]
           ELSE /\ thr' = [thr EXCEPT ![t] = [pc |-> "exec", kind |-> rq.kind,
                                              key |-> rq.key, id |-> 0]]
                /\ UNCHANGED <<cache, log>>
        /\ UNCHANGED <<heap, classes, instances, last>>

\* the miss path: exec() compiles the template
TExec ==
    \E t \in DOMAIN thr :
        /\ thr[t].pc = "exec"
        /\ heap' = Append(heap, Compile(thr[t].kind, thr[t].key))
        /\ log' = Append(log, LogEntry(thr[t].kind, thr[t].key, Len(heap) + 1, TRUE))
        /\ thr' = [thr EXCEPT ![t].pc = "store", ![t].id = Len(heap) + 1]
        /\ UNCHANGED <<cache, classes, instances, last>>

\* back in lru_cache: store the result and return it
TReturn ==
    \E t \in DOMAIN thr :
        /\ thr[t].pc = "store"
        /\ cache' = LruStore(cache, thr[t].kind, thr[t].key, thr[t].id)
        /\ thr' = [thr EXCEPT ![t].pc = "done"]
        /\ UNCHANGED <<heap, log, classes, instances, last>>

----------------------------------------------------------------------------
(* Specifications *)

Opts(f, i, h, k) == [frozen |-> f, iter |-> i, hash |-> h, keyword_repr |-> k]

Body(ann, attrs, user) == [ann |-> ann, attrs |-> attrs, user |-> user]

\* a class statement: bases holds 0 for 'class C:' and 1 for 'class C(B):'
\* with B the first class declared
Decl(body, opts, bases) == [body |-> body, opts |-> opts, bases |-> bases]

Plain == Opts(FALSE, FALSE, FALSE, TRUE)

Frozen == Opts(TRUE, FALSE, FALSE, TRUE)

NoAttrs == <<>>

Init ==
    /\ heap = <<>>
    /\ cache = [k \in Kinds |-> <<>>]
    /\ log = <<>>
    /\ classes = <<>>
    /\ instances = <<>>
    /\ last = NoCall
    /\ thr = [t \in 1..MaxThreads |-> Idle]

(* the template cache and the patcher: declarations without user methods *)

CacheBodies ==
    {Body(<<"a">>, NoAttrs, {}),
     Body(<<"a">>, "a" :> Int1, {}),
     Body(<<"a">>, "a" :> Int2, {}),
     Body(<<"a">>, "a" :> BoolTrue, {}),
     Body(<<"b", "a">>, "a" :> Int1, {}),
     Body(<<"b", "c">>, "b" :> Int1, {})}

CacheOpts ==
    {Opts(FALSE, FALSE, FALSE, TRUE), Opts(TRUE, TRUE, TRUE, FALSE),
     Opts(FALSE, FALSE, TRUE, FALSE)}

DeclareCache == Dataklass({Decl(b, o, {0}) : b \in CacheBodies, o \in CacheOpts}, MaxClasses)

SpecCache == Init /\ [][DeclareCache]_vars

(* the synthesizer: declarations with user methods and every option *)

DeclBodies ==
    {Body(<<>>, NoAttrs, {}),
     Body(<<"a">>, NoAttrs, {}),
     Body(<<"b", "a">>, "a" :> Int1, {}),
     Body(<<"a">>, NoAttrs, {"__init__", "__repr__"}),
     Body(<<"a">>, NoAttrs, {"__new__", "__eq__"}),
     Body(<<"a">>, NoAttrs, {"__setattr__"}),
     Body(<<"a">>, NoAttrs, {"__delattr__"}),
     Body(<<"a">>, NoAttrs, {"__iter__"}),
     Body(<<"a">>, NoAttrs, {"__hash__"})}

DeclOpts == {Opts(f, i, h, k) : f \in BOOLEAN, i \in BOOLEAN, h \in BOOLEAN, k \in BOOLEAN}

Declare == Dataklass({Decl(b, o, {0, 1}) : b \in DeclBodies, o \in DeclOpts}, MaxDeclClasses)

SpecDecl == Init /\ [][Declare]_vars

(* constructor calls *)

Int3 == [ty |-> "int", n |-> 3]

CallDecls ==
    {Decl(Body(<<"a", "b", "c">>, "b" :> Int1, {}), Plain, {0}),
     Decl(Body(<<"a", "b", "c">>, ("b" :> Int1) @@ ("c" :> Int2), {}), Frozen, {0}),
     Decl(Body(<<"a", "b">>, "a" :> Int1, {}), Plain, {0}),
     Decl(Body(<<"a", "b">>, "a" :> BoolTrue, {}), Plain, {0})}

\* positional arguments: a different value at each position
CallPos == {SubSeq(<<Int2, BoolTrue, Int1>>, 1, n) : n \in 0..3}

\* keyword arguments: a value no position and no default has
CallKw == UNION {[S -> {Int3}] : S \in SUBSET {"a", "b", "c"}}

DeclareCall == Dataklass(CallDecls, MaxCallClasses)

ConstructCall == Construct(CallPos, CallKw, 0)

NextCall == DeclareCall \/ ConstructCall

SpecCall == Init /\ [][NextCall]_vars

(* frozen instances: attribute writes, deletes and reads *)

FrozenDecls ==
    {Decl(Body(<<"a", "b">>, "b" :> Int1, {}), Frozen, {0}),
     Decl(Body(<<"a", "b">>, "b" :> Int1, {}), Plain, {0}),
     Decl(Body(<<>>, NoAttrs, {}), Frozen, {1}),
     Decl(Body(<<>>, NoAttrs, {}), Plain, {1})}

FrozenPos == {<<Int1>>}

\* for each class a field and an attribute that is no field
AttrNames == {"a", "c"}

DeclareFrozen == Dataklass(FrozenDecls, MaxFrozenClasses)

ConstructFrozen == Construct(FrozenPos, {<<>>}, MaxFrozenInstances)

SetAttrFrozen == SetAttr(AttrNames, {Int2})

DelAttrFrozen == DelAttr(AttrNames)

GetAttrFrozen == GetAttr(AttrNames)

NextFrozen ==
    \/ DeclareFrozen
    \/ ConstructFrozen
    \/ SetAttrFrozen
    \/ DelAttrFrozen
    \/ GetAttrFrozen

SpecFrozen == Init /\ [][NextFrozen]_vars

(* equality and hashing of instances *)

EqDecls ==
    {Decl(Body(<<"a", "b">>, "b" :> Int1, {}), Opts(FALSE, FALSE, TRUE, TRUE), {0}),
     Decl(Body(<<>>, NoAttrs, {}), Plain, {1})}

EqPos == {<<Int1>>, <<BoolTrue, BoolTrue>>, <<Int1, Int2>>}

DeclareEq == Dataklass(EqDecls, MaxEqClasses)

ConstructEq == Construct(EqPos, {<<>>}, MaxInstances)

NextEq == DeclareEq \/ ConstructEq \/ Eq \/ Hash

SpecEq == Init /\ [][NextEq]_vars

(* concurrent first requests *)

Request(kind, n) == [kind |-> kind, key |-> [n |-> n, args |-> <<>>]]

\* one key per kind: no request evicts another one's template
ConcRequests == {Request("eq", 1), Request("hash", 1), Request("iter", 1)}

ThreadCall == TCall(ConcRequests)

NextConc == ThreadCall \/ TExec \/ TReturn

SpecConc == Init /\ [][NextConc]_vars

----------------------------------------------------------------------------
(* Properties *)

Ok(c) == classes[c].status = ""

\* the field list and defaults the class declares, resolved over its ancestry
Declared(c) == GetFields(classes, classes[c])

FieldNames(c) == Range(Declared(c).names)

DeclaredHasDefault(c, k) == HasDefault(Declared(c).defaults, PH[k])

DeclaredDefault(c, k) == DefaultOf(Declared(c).defaults, PH[k])

IsFrozen(c) == Ok(c) /\ classes[c].opts.frozen

Compilations(kind, n) ==
    {i \in DOMAIN log : log[i].kind = kind /\ log[i].key.n = n /\ log[i].compiled}

----------------------------------------------------------------------------
(* C1 *)

\* C1: on an instance of a type synthesized with frozen=True, every
\* attribute write and delete through the ordinary path raises a TypeError
\* naming the attribute, every field keeps the value it was constructed
\* with, and reading a field returns that value.
C1_FrozenRejectsMutation ==
    /\ \A i \in DOMAIN instances :
          IsFrozen(instances[i].cls) =>
             /\ instances[i].attrs = instances[i].built
             /\ DOMAIN instances[i].attrs = FieldNames(instances[i].cls)
    /\ last.op \in {"setattr", "delattr"} /\ IsFrozen(last.cls) =>
          last.res = "TypeError" /\ last.msg = last.name
    /\ last.op = "getattr" /\ IsFrozen(last.cls) /\ last.name \in FieldNames(last.cls) =>
          last.res = "ok" /\ last.val = instances[last.inst].built[last.name]

\* a write to a field of a frozen instance has been attempted
C1_Witness ==
    /\ last.op = "setattr"
    /\ IsFrozen(last.cls)
    /\ last.name \in FieldNames(last.cls)
    /\ last.val # instances[last.inst].built[last.name]

----------------------------------------------------------------------------
(* C2 *)

\* C2: a successful call of the synthesized constructor sets each field, in
\* declaration order, to the argument passed for it or else to the default
\* value the record type itself declares, whatever was declared before.
C2_ConstructorSetsFields ==
    last.op = "construct" /\ last.res = "ok" =>
        LET names == Declared(last.cls).names IN
        /\ DOMAIN last.attrs = Range(names)
        /\ \A k \in DOMAIN names :
              last.attrs[names[k]] =
                 IF k <= Len(last.pos) THEN last.pos[k]
                 ELSE IF names[k] \in DOMAIN last.kw THEN last.kw[names[k]]
                 ELSE IF DeclaredHasDefault(last.cls, k)
                      THEN DeclaredDefault(last.cls, k)
                      ELSE NoValue

----------------------------------------------------------------------------
(* C3 *)

PrevRequest(i) ==
    LET same == {j \in 1..(i - 1) :
                    log[j].kind = log[i].kind /\ KeyEq(log[j].key, log[i].key)}
    IN IF same = {} THEN 0 ELSE CHOOSE j \in same : \A k \in same : k <= j

\* the number of distinct keys of log[i]'s kind requested strictly
\* between requests j and i
KeysBetween(j, i) ==
    Cardinality({k \in (j + 1)..(i - 1) :
        /\ log[k].kind = log[i].kind
        /\ \A l \in (k + 1)..(i - 1) :
              log[l].kind = log[i].kind => ~KeyEq(log[l].key, log[k].key)})

StillCached(i) == PrevRequest(i) > 0 /\ KeysBetween(PrevRequest(i), i) < LruMaxSize

----------------------------------------------------------------------------
(* C4 *)

\* C4: for each template key there is at most one compilation, and all
\* callers that have returned hold the same artifact for the same key.
C4_OneCompilationPerKey ==
    /\ \A i, j \in DOMAIN log :
          log[i].compiled /\ log[j].compiled /\ log[i].kind = log[j].kind
             /\ KeyEq(log[i].key, log[j].key) => i = j
    /\ \A t, u \in DOMAIN thr :
          thr[t].pc = "done" /\ thr[u].pc = "done" /\ thr[t].kind = thr[u].kind
             /\ KeyEq(thr[t].key, thr[u].key) => thr[t].id = thr[u].id

----------------------------------------------------------------------------
(* C5 *)

RealNames == {"a", "b", "c"}

NamesIn(f) ==
    Range(f.co_names) \cup Range(f.co_varnames) \cup Range(f.co_consts)
        \cup DOMAIN f.kwdefaults

TemplateIds == {log[i].id : i \in DOMAIN log}

MethodSlots == {<<c, s>> \in (DOMAIN classes) \X Slots : classes[c].dict[s].k = "fn"}

\* C5: patch_fields leaves the shared template alone: every template still
\* names only placeholders, and every specialization is a new function
\* object, distinct from all templates and all other specializations.
C5_TemplatesUntouched ==
    /\ \A i \in DOMAIN log :
          /\ NamesIn(heap[log[i].id]) \cap RealNames = {}
          /\ heap[log[i].id] = Compile(log[i].kind, log[CHOOSE j \in DOMAIN log :
                                        log[j].id = log[i].id /\ log[j].compiled].key)
    /\ \A x \in MethodSlots :
          /\ classes[x[1]].dict[x[2]].id \notin TemplateIds
          /\ \A y \in MethodSlots :
                classes[x[1]].dict[x[2]].id = classes[y[1]].dict[y[2]].id => x = y

\* one cached template has been specialized for two different field lists
C5_Witness ==
    \E c, d \in DOMAIN classes :
        /\ Ok(c) /\ Ok(d)
        /\ classes[c].match_args # classes[d].match_args
        /\ Len(classes[c].match_args) = Len(classes[d].match_args)
        /\ classes[c].dict["__eq__"].k = "fn" /\ classes[d].dict["__eq__"].k = "fn"
        /\ Cardinality(Compilations("eq", Len(classes[c].match_args))) = 1

----------------------------------------------------------------------------
(* C6 *)

\* C6: a declaration that fails with a configuration error has installed or
\* changed nothing on the type.
C6_FailureInstallsNothing ==
    \A c \in DOMAIN classes :
        ~Ok(c) => /\ classes[c].dict = ClassDict(classes[c].user)
                  /\ classes[c].match_args = <<>>

----------------------------------------------------------------------------
(* C7 *)

\* C7: after a successful declaration, a constructor, allocation-
\* constructor, representation or equality method the type's body defines
\* is still the user's.
C7_UserOverridesWin ==
    \A c \in DOMAIN classes :
        Ok(c) => \A s \in {"__init__", "__new__", "__repr__", "__eq__"} :
                    s \in classes[c].user => classes[c].dict[s] = User

----------------------------------------------------------------------------
(* C8 *)

\* the position of the first field with a default, 0 if none
FirstDefault(c) ==
    LET n == Len(Declared(c).names)
        d == {k \in 1..n : DeclaredHasDefault(c, k)}
    IN IF d = {} THEN 0 ELSE CHOOSE k \in d : \A l \in d : k <= l

\* the position of the first field without a default that follows a field
\* with one; past the end if there is none
FirstRequiredAfterDefault(c) ==
    LET n == Len(Declared(c).names)
        r == {k \in 1..n : ~DeclaredHasDefault(c, k)
                              /\ \E l \in 1..(k - 1) : DeclaredHasDefault(c, l)}
    IN IF r = {} THEN n + 1 ELSE CHOOSE k \in r : \A l \in r : k <= l

\* C8 as stated: no field declared after the first defaulted field can be
\* passed positionally.
C8_KeywordOnlyAfterFirstDefault ==
    last.op = "construct" /\ FirstDefault(last.cls) > 0
        /\ Len(last.pos) > FirstDefault(last.cls) => last.res # "ok"

\* C8 amended: fields are parameters in declaration order; the first field
\* without a default that follows a defaulted field, and every field after
\* it, is keyword-only; every field before it can be passed positionally.
\* So a call succeeds exactly when its positional arguments stop before that
\* field, its keywords are fields not passed positionally, and every field
\* without a default is passed; positional argument k is then field k.
C8_KeywordOnlyFromFirstRequiredAfterDefault ==
    last.op = "construct" =>
        LET c == last.cls
            names == Declared(c).names
            fits == /\ Len(last.pos) < FirstRequiredAfterDefault(c)
                    /\ DOMAIN last.kw \subseteq Range(names)
                    /\ \A k \in DOMAIN names :
                          IF k <= Len(last.pos) THEN names[k] \notin DOMAIN last.kw
                          ELSE names[k] \in DOMAIN last.kw \/ DeclaredHasDefault(c, k)
        IN /\ last.res = "ok" <=> fits
           /\ last.res = "ok" =>
                 \A k \in DOMAIN names :
                     /\ k <= Len(last.pos) => last.attrs[names[k]] = last.pos[k]
                     /\ names[k] \in DOMAIN last.kw =>
                           last.attrs[names[k]] = last.kw[names[k]]

\* a defaulted field after the first defaulted field was passed positionally
C8_Witness ==
    /\ last.op = "construct"
    /\ last.res = "ok"
    /\ FirstDefault(last.cls) > 0
    /\ Len(last.pos) > FirstDefault(last.cls)
    /\ \E d \in DOMAIN classes :
          FirstRequiredAfterDefault(d) <= Len(Declared(d).names)

----------------------------------------------------------------------------
(* C9 *)

IsSubclass(d, c) == c \in Ancestors(classes, d)

SameValues(i, j) ==
    /\ FieldNames(instances[i].cls) = FieldNames(instances[j].cls)
    /\ \A nm \in FieldNames(instances[i].cls) :
          PyEq(instances[i].attrs[nm], instances[j].attrs[nm])

\* C9: the generated __eq__ returns True for r against itself, and
\* NotImplemented whenever the other object's class is not exactly r's
\* class, subclass or not; values are compared only within one class.
C9_EqExactClassOnly ==
    last.op = "eq" =>
        /\ last.inst = last.other => last.res = "True"
        /\ instances[last.inst].cls # instances[last.other].cls =>
              last.res = "NotImplemented"
        /\ last.res \in {"True", "False"} =>
              /\ instances[last.inst].cls = instances[last.other].cls
              /\ last.res = "True" <=> SameValues(last.inst, last.other)

\* r was compared with an instance of a subclass holding the same values
C9_Witness ==
    /\ last.op = "eq"
    /\ instances[last.inst].cls # instances[last.other].cls
    /\ IsSubclass(instances[last.other].cls, instances[last.inst].cls)
    /\ SameValues(last.inst, last.other)

----------------------------------------------------------------------------
(* C10 *)

EqOf(i, j) ==
    RunEq(classes, heap[Lookup(classes, instances[i].cls, "__eq__").id],
          instances[i], instances[j])

HashOf(i) == RunHash(heap[Lookup(classes, instances[i].cls, "__hash__").id], instances[i])

HashEnabled(c) == Ok(c) /\ classes[c].opts.hash

\* C10: two instances of one record type whose field values are equal
\* position by position compare equal, and hash equal when the type was
\* synthesized with hash=True.
C10_EqualValuesEqualHash ==
    \A i, j \in DOMAIN instances :
        /\ instances[i].cls = instances[j].cls
        /\ SameValues(i, j)
        => /\ EqOf(i, j) = "True"
           /\ HashEnabled(instances[i].cls) =>
                 /\ HashOf(i).res = "ok"
                 /\ HashOf(i).n = HashOf(j).n

\* two instances with equal but not identical values, one of them hashed
C10_Witness ==
    /\ last.op = "hash"
    /\ \E j \in DOMAIN instances :
          /\ j # last.inst
          /\ instances[j].cls = last.cls
          /\ HashEnabled(last.cls)
          /\ SameValues(last.inst, j)
          /\ instances[j].attrs # instances[last.inst].attrs
          /\ last.val.n = HashOf(j).n

====
